---- MODULE Spec2Model ----
(***************************************************************************)
(* Model of the app generator (src/app/llm_generator.py) and of the        *)
(* publishing helpers (src/app/github_utils.py).                            *)
(*                                                                         *)
(* Python strings are sequences of lexemes.  A lexeme is one of the        *)
(* literals the code searches for (the separator, the code fence, "<",     *)
(* white space) or an opaque piece of text that contains none of them.     *)
(* split / strip / startswith / in work on these sequences exactly as the  *)
(* Python methods work on characters.                                      *)
(***************************************************************************)
EXTENDS Integers, Sequences, FiniteSets, TLC

\* ------------------------------------------------------------- bounds
MaxBrief == 1
MaxText == 4
MaxDesc == 2
MaxTimeout == 7
MaxAtts == 3

\* ------------------------------------------------------------ lexemes
SEPARATOR == "---README.md---"
\* the three-backquote code fence (a backquote cannot be written in a string here)
FENCE == "[fence]"
LT == "<"
SP == " "
NL == "\n"
CH == "a"
BSN == "\\n"
SLASH == "/"

Whitespace == {SP, NL}

Alphabet == {SEPARATOR, FENCE, LT, SP, CH}

Str(n) == UNION {[1..k -> Alphabet] : k \in 0..n}

\* ---------------------------------------------------- str operations
\* sub in s
RECURSIVE ContainsSeq(_, _)
ContainsSeq(s, sub) ==
    IF Len(sub) > Len(s) THEN FALSE
    ELSE IF SubSeq(s, 1, Len(sub)) = sub THEN TRUE
    ELSE ContainsSeq(Tail(s), sub)

Contains(s, tok) == \E i \in DOMAIN s : s[i] = tok

\* index of the first occurrence of tok in s, 0 when there is none
FirstIndex(s, tok) ==
    IF Contains(s, tok)
    THEN CHOOSE i \in DOMAIN s : s[i] = tok /\ \A j \in 1..(i - 1) : s[j] # tok
    ELSE 0

\* s.split(tok, 1)
SplitFirst(s, tok) ==
    LET i == FirstIndex(s, tok)
    IN IF i = 0 THEN <<s>>
       ELSE <<SubSeq(s, 1, i - 1), SubSeq(s, i + 1, Len(s))>>

\* s.split(tok)
RECURSIVE SplitAll(_, _)
SplitAll(s, tok) ==
    LET i == FirstIndex(s, tok)
    IN IF i = 0 THEN <<s>>
       ELSE <<SubSeq(s, 1, i - 1)>> \o SplitAll(SubSeq(s, i + 1, Len(s)), tok)

RECURSIVE LStrip(_)
LStrip(s) ==
    IF s # <<>> /\ Head(s) \in Whitespace THEN LStrip(Tail(s)) ELSE s

RECURSIVE RStrip(_)
RStrip(s) ==
    IF s # <<>> /\ s[Len(s)] \in Whitespace
    THEN RStrip(SubSeq(s, 1, Len(s) - 1))
    ELSE s

\* s.strip()
Strip(s) == RStrip(LStrip(s))

\* s.startswith(prefix)
StartsWith(s, prefix) ==
    Len(prefix) <= Len(s) /\ SubSeq(s, 1, Len(prefix)) = prefix

\* sep.join(list)
RECURSIVE Join(_, _)
Join(list, sep) ==
    IF list = <<>> THEN <<>>
    ELSE IF Len(list) = 1 THEN list[1]
    ELSE list[1] \o sep \o Join(Tail(list), sep)

\* ------------------------------------------------ llm_generator.py
\* /tmp/llm_attachments/<name>: the directory is a map from the names written
\* so far to the bytes last written under that name.
EmptyDir == [n \in {} |-> <<>>]

TextSuffixes == {".md", ".txt", ".json", ".csv"}

\* One attachment {name, url}.  The url is kept in parsed form: whether it
\* starts with "data:", whether it holds a comma, the text between "data:" and
\* the first ";", whether the payload decodes as base64, and the decoded bytes.
TxtAttachment ==
    [name |-> <<"notes", ".txt">>, data |-> TRUE, comma |-> TRUE,
     mime |-> <<"text", "/plain">>, b64ok |-> TRUE, bytes |-> <<CH, NL, FENCE>>]

HttpAttachment ==
    [name |-> <<"remote", ".png">>, data |-> FALSE, comma |-> FALSE,
     mime |-> <<>>, b64ok |-> FALSE, bytes |-> <<>>]

\* name = att.get("name") or "attachment"
AttName(att) == IF att.name = <<>> THEN <<"attachment">> ELSE att.name

\* open(TMP_DIR / name, "wb") succeeds: the directory has no subdirectories,
\* so a name with a "/" in it cannot be opened
Writable(name) == ~Contains(name, SLASH)

\* the exception the try block of lines 28-40 raises for this entry, if any
DecodeError(att) ==
    IF ~att.comma THEN "ValueError"
    ELSE IF ~att.b64ok THEN "binascii.Error"
    ELSE IF ~Writable(AttName(att)) THEN "OSError"
    ELSE "none"

\* faulty variant: only ValueError (and its subclass binascii.Error) is caught
HandlerCatchesValueError(e) == e \in {"ValueError", "binascii.Error"}

\* line 41: except Exception
HandlerCatches(e) == e \in {"ValueError", "binascii.Error", "OSError"}

\* one iteration of the loop of decode_attachments
DecodeOne(att, saved_so_far, dir) ==
    LET name == AttName(att)
        e == DecodeError(att)
    IN IF ~att.data
       THEN [saved |-> saved_so_far, dir |-> dir, raised |-> FALSE]
       ELSE IF e = "none"
       THEN [saved |-> Append(saved_so_far, [name |-> name, path |-> name,
                                             mime |-> att.mime, size |-> Len(att.bytes)]),
             dir |-> [n \in DOMAIN dir \cup {name} |->
                         IF n = name THEN att.bytes ELSE dir[n]],
             raised |-> FALSE]
       ELSE [saved |-> saved_so_far, dir |-> dir, raised |-> ~HandlerCatches(e)]

\* decode_attachments: the list saved and the directory after the loop
RECURSIVE decode_attachments(_, _, _)
decode_attachments(atts, saved_so_far, dir) ==
    IF atts = <<>> THEN [saved |-> saved_so_far, dir |-> dir, raised |-> FALSE]
    ELSE LET one == DecodeOne(Head(atts), saved_so_far, dir)
         IN IF one.raised THEN one
            ELSE decode_attachments(Tail(atts), one.saved, one.dir)

\* data.replace("\n", "\\n")
EscapeNewlines(data) == [i \in DOMAIN data |-> IF data[i] = NL THEN BSN ELSE data[i]]

PREVIEW_CHARS == 1000
CSV_LINES == 3

Take(s, n) == SubSeq(s, 1, IF Len(s) < n THEN Len(s) ELSE n)

\* one iteration of the loop of summarize_attachment_meta
SummaryLine(s, dir) ==
    LET nm == s.name
        isText == StartsWith(s.mime, <<"text">>) \/ nm[Len(nm)] \in TextSuffixes
        lead == <<"- ">> \o nm \o <<" (">> \o s.mime
    IN IF ~isText
       THEN lead \o <<"): ", ToString(s.size), " bytes">>
       ELSE IF nm[Len(nm)] = ".csv"
       THEN LET lines == SplitAll(dir[s.path], NL)
            IN IF Len(lines) < CSV_LINES
                  \/ (Len(lines) = CSV_LINES /\ lines[CSV_LINES] = <<>>)
               THEN lead \o <<"): (could not read preview: ", ")">>
               ELSE lead \o <<"): preview: ">>
                        \o Join([i \in 1..CSV_LINES |-> Strip(lines[i])], <<BSN>>)
       ELSE lead \o <<"): preview: ">>
                \o Take(EscapeNewlines(Take(dir[s.path], PREVIEW_CHARS)), PREVIEW_CHARS)

summarize_attachment_meta(sv, dir) ==
    Join([i \in DOMAIN sv |-> SummaryLine(sv[i], dir)], <<BSN>>)

\* faulty variant: fences are ignored, the text is only trimmed
strip_code_block_trim_only(t) == Strip(t)

\* faulty variant: the fenced block is returned without being trimmed
strip_code_block_untrimmed(t) ==
    IF Contains(t, FENCE)
    THEN LET parts == SplitAll(t, FENCE)
         IN IF Len(parts) >= 2 THEN parts[2] ELSE Strip(t)
    ELSE Strip(t)

\* _strip_code_block(text)
strip_code_block(t) ==
    IF Contains(t, FENCE)
    THEN LET parts == SplitAll(t, FENCE)
         IN IF Len(parts) >= 2 THEN Strip(parts[2]) ELSE Strip(t)
    ELSE Strip(t)

README_TITLE == "# Auto-generated README (Round "
README_NOTES == "## Setup ... This README was generated as a fallback (OpenAI did not return an explicit README)."

\* generate_readme_fallback(brief, checks, attachments_meta, round_num)
generate_readme_fallback(b, cks, meta, rn) ==
    LET checks_text == Join(cks, <<BSN>>)
        att_text == meta
    IN <<README_TITLE, ToString(rn), ")", NL, "**Project brief:**", SP>> \o b
        \o <<NL, "**Attachments:**", NL>> \o att_text
        \o <<NL, "**Checks to meet:**", NL>> \o checks_text
        \o <<NL, README_NOTES, NL>>

FALLBACK_MARK == "Hello (fallback)"

\* the text substituted in the except branch of generate_app_code
FallbackText(b, cks, meta, rn) ==
    <<NL, LT, "html><head><title>Fallback App</title></head><body><h1>",
      FALLBACK_MARK,
      "</h1><p>This app was generated as a fallback because OpenAI/AIPipe failed. Brief:",
      SP>> \o b
        \o <<LT, "/p></body></html>", NL, SEPARATOR, NL>>
        \o generate_readme_fallback(b, cks, meta, rn)
        \o <<NL>>

\* faulty variant: the README segment is trimmed but not fence-stripped
ParseResponseReadmeRaw(t, b, cks, meta, rn) ==
    IF Contains(t, SEPARATOR)
    THEN LET parts == SplitFirst(t, SEPARATOR)
         IN [code |-> strip_code_block(Strip(parts[1])),
             readme |-> Strip(parts[2])]
    ELSE [code |-> strip_code_block(t),
          readme |-> generate_readme_fallback(b, cks, meta, rn)]

\* the split of the response text into (code_part, readme_part)
ParseResponse(t, b, cks, meta, rn) ==
    IF Contains(t, SEPARATOR)
    THEN LET parts == SplitFirst(t, SEPARATOR)
         IN IF Len(parts) = 2
            THEN [code |-> strip_code_block(Strip(parts[1])),
                  readme |-> strip_code_block(Strip(parts[2]))]
            ELSE [code |-> strip_code_block(t),
                  readme |-> generate_readme_fallback(b, cks, meta, rn)]
    ELSE [code |-> strip_code_block(t),
          readme |-> generate_readme_fallback(b, cks, meta, rn)]

DocStart == {<<LT>>, <<LT, "!DOCTYPE">>, <<LT, "html">>}

\* the HTML5 skeleton wrapped around a fragment
WrapHtml(code) ==
    <<LT, "!DOCTYPE", " html>", NL,
      "<html lang=en><head>...<title>Generated App</title></head><body>", NL>>
        \o code \o <<NL, "</body>", NL, "</html>">>

\* faulty variant: a fragment is never wrapped
RepairHtmlNever(code) == code

\* "Ensure index.html has proper HTML structure"
RepairHtml(code) ==
    IF ~(\E p \in DocStart : StartsWith(Strip(code), p))
    THEN WrapHtml(code)
    ELSE code

\* str() of the checks list, as the prompt interpolates it
PyReprList(cks) ==
    <<"[">> \o Join([i \in DOMAIN cks |-> <<"'">> \o cks[i] \o <<"'">>], <<", ">>) \o <<"]">>

\* user_prompt
UserPrompt(b, cks, meta, rn, prev) ==
    LET context_note ==
            IF rn = 2 /\ prev # <<>>
            THEN <<NL, "### Previous README.md:", NL>> \o prev
                    \o <<NL, "Revise and enhance this project according to the new brief below.", NL>>
            ELSE <<>>
    IN <<NL, "You are a professional web developer assistant.", NL, "### Round", NL,
         ToString(rn), NL, "### Task", NL>> \o b \o <<NL>> \o context_note
        \o <<NL, "### Attachments (if any)", NL>> \o meta
        \o <<NL, "### Evaluation checks", NL>> \o PyReprList(cks)
        \o <<NL, "### Output format rules: ...", NL>>

\* the callers' requests the model explores, besides the brief
Requests ==
    { [attachments |-> <<>>, checks |-> <<>>, round_num |-> 1, prev_readme |-> <<>>],
      [attachments |-> <<TxtAttachment, HttpAttachment>>, checks |-> <<<<CH>>, <<FENCE>>>>,
       round_num |-> 1, prev_readme |-> <<>>],
      [attachments |-> <<>>, checks |-> <<<<CH>>>>, round_num |-> 2,
       prev_readme |-> <<"# My App">>] }

\* what the completion endpoint can answer: a transport exception, or a status
\* with a body.  The body of a 200 is no JSON at all ("invalid"), a completion
\* object whose choices[0].message.content is `content` (<<>> for null or ""),
\* a JSON object without that field ("object"), or a bare JSON string ("string").
NoResp == [kind |-> "none", status |-> 0, tag |-> "none", content |-> <<>>]

ERROR_OBJECT == "{'error': {'message': 'quota exceeded'}}"

Responses ==
    { [kind |-> "exception", status |-> 0, tag |-> "none", content |-> <<>>] }
    \cup { [kind |-> "http", status |-> st, tag |-> "object", content |-> <<>>] :
             st \in {429, 500} }
    \cup { [kind |-> "http", status |-> 200, tag |-> "invalid", content |-> <<>>] }
    \cup { [kind |-> "http", status |-> 200, tag |-> "object", content |-> <<>>] }
    \cup { [kind |-> "http", status |-> 200, tag |-> "string", content |-> c] :
             c \in {<<SEPARATOR>>, <<LT, CH>>} }
    \cup { [kind |-> "http", status |-> 200, tag |-> "completion", content |-> c] :
             c \in Str(MaxText) }

\* str(data)
PyStr(r) == IF r.tag = "string" THEN r.content ELSE <<ERROR_OBJECT>>

\* faulty variant: the credential is never found missing
KeyMissingNever(token) == FALSE

\* line 155: `if not token`
KeyMissing(token) == token = ""

\* faulty variant: a status other than 200 is not raised
CallRaisesTransportOnly(r) ==
    \/ r.kind = "exception"
    \/ r.tag = "invalid"

\* whether the try block of generate_app_code raises with this response
CallRaises(r) ==
    \/ r.kind = "exception"
    \/ r.status # 200
    \/ r.tag = "invalid"

\* the text the try block leaves when it does not raise
ResponseText(r) ==
    IF r.tag = "completion" THEN r.content ELSE PyStr(r)

NoFiles == [f \in {"index.html", "README.md"} |-> <<>>]

VARIABLES
    pc, OPENAI_API_KEY, brief, attachments, checks, round_num, prev_readme,
    tmp_dir, saved, attachments_meta, posts, payload, resp, text,
    code_part, readme_part, files, outcome

genVars ==
    <<pc, OPENAI_API_KEY, brief, attachments, checks, round_num, prev_readme,
      tmp_dir, saved, attachments_meta, posts, payload, resp, text,
      code_part, readme_part, files, outcome>>


GenInit ==
    /\ pc = "start"
    /\ OPENAI_API_KEY \in {"", "sk-key"}
    /\ brief \in Str(MaxBrief)
    /\ \E rq \in Requests :
        /\ attachments = rq.attachments
        /\ checks = rq.checks
        /\ round_num = rq.round_num
        /\ prev_readme = rq.prev_readme
    /\ tmp_dir = EmptyDir
    /\ saved = <<>>
    /\ attachments_meta = <<>>
    /\ posts = 0
    /\ payload = <<>>
    /\ resp = NoResp
    /\ text = <<>>
    /\ code_part = <<>>
    /\ readme_part = <<>>
    /\ files = NoFiles
    /\ outcome = "none"

\* lines 195-233: parse the text, repair the HTML, return the files
ParseAndReturn(t, meta) ==
    LET parsed == ParseResponse(t, brief, checks, meta, round_num)
    IN /\ text' = t
       /\ code_part' = parsed.code
       /\ readme_part' = parsed.readme
       /\ files' = [f \in {"index.html", "README.md"} |->
                       IF f = "index.html" THEN RepairHtml(parsed.code) ELSE parsed.readme]
       /\ outcome' = "returned"
       /\ pc' = "done"

\* generate_app_code up to the POST: decode and summarise the attachments,
\* build the prompt, check the credential.  Without a credential the
\* RuntimeError is raised inside the try block and handled by its except.
Call ==
    /\ pc = "start"
    /\ LET d == decode_attachments(attachments, <<>>, tmp_dir)
           meta == summarize_attachment_meta(d.saved, d.dir)
       IN /\ saved' = d.saved
          /\ tmp_dir' = d.dir
          /\ attachments_meta' = meta
          /\ IF KeyMissing(OPENAI_API_KEY)
             THEN /\ ParseAndReturn(FallbackText(brief, checks, meta, round_num), meta)
                  /\ UNCHANGED <<posts, payload>>
             ELSE /\ posts' = posts + 1
                  /\ payload' = UserPrompt(brief, checks, meta, round_num, prev_readme)
                  /\ pc' = "posting"
                  /\ UNCHANGED <<text, code_part, readme_part, files, outcome>>
    /\ UNCHANGED <<OPENAI_API_KEY, brief, attachments, checks, round_num, prev_readme, resp>>

\* generate_app_code from the answer of the POST to the return
Respond ==
    /\ pc = "posting"
    /\ \E r \in Responses :
        /\ resp' = r
        /\ IF CallRaises(r)
           THEN ParseAndReturn(
                    FallbackText(brief, checks, attachments_meta, round_num),
                    attachments_meta)
           ELSE ParseAndReturn(ResponseText(r), attachments_meta)
    /\ UNCHANGED <<OPENAI_API_KEY, brief, attachments, checks, round_num, prev_readme,
                   tmp_dir, saved, attachments_meta, posts, payload>>


\* ---------------------------------------------------- github_utils.py
CTRL == "\t"
DESC_LIMIT == 350
DESC_KEEP == 347

DescAlphabet == {CH, SP, CTRL}

Descriptions == UNION {[1..k -> DescAlphabet] : k \in 0..MaxDesc}

Owners == {"alice", "bob"}

\* lines 24-30 of create_repo: the description sent
SanitizeDescription(d) ==
    IF d = <<>> THEN d
    ELSE LET noCtrl == SelectSeq(d, LAMBDA c : c # CTRL)
             stripped == Strip(noCtrl)
         IN IF Len(stripped) > DESC_LIMIT
            THEN Take(stripped, DESC_KEEP) \o <<".", ".", ".">>
            ELSE stripped

\* an answer of the GitHub API: a transport exception or a status; a 201 of
\* POST /user/repos carries the repository created, owned by `login`
NoAnswer == [kind |-> "none", status |-> 0, login |-> ""]

RepoGetAnswers ==
    { [kind |-> "exception", status |-> 0, login |-> ""] }
    \cup { [kind |-> "http", status |-> st, login |-> ""] : st \in {200, 301, 404, 500} }

RepoPostAnswers ==
    { [kind |-> "exception", status |-> 0, login |-> ""] }
    \cup { [kind |-> "http", status |-> st, login |-> ""] : st \in {200, 403, 422} }
    \cup { [kind |-> "http", status |-> 201, login |-> o] : o \in Owners }

NoHandle == [kind |-> "none", name |-> <<>>, full_name |-> <<>>]

\* faulty variant: every status below 400 counts as found
RepoFoundBelow400(r) == r.kind = "http" /\ r.status < 400

\* line 36: the existence check found the repository
RepoFound(r) == r.kind = "http" /\ r.status = 200

\* line 53: the creation succeeded
RepoCreated(r) == r.kind = "http" /\ r.status = 201

\* line 38: the handle returned for an existing repository
ExistingHandle(user, rn) ==
    [kind |-> "return", name |-> rn, full_name |-> <<user, SLASH>> \o rn]

\* r.json() of the 201: the repository GitHub created
CreatedHandle(r, rn) ==
    [kind |-> "return", name |-> rn, full_name |-> <<r.login, SLASH>> \o rn]

RaisedHandle == [kind |-> "raise", name |-> <<>>, full_name |-> <<>>]

VARIABLES
    rpc, USERNAME, repo_name, description, repo_gets, repo_posts,
    get_answer, post_answer, post_data, repo_result

repoVars ==
    <<rpc, USERNAME, repo_name, description, repo_gets, repo_posts,
      get_answer, post_answer, post_data, repo_result>>

NoData == [name |-> <<>>, description |-> <<>>]

RepoInit ==
    /\ rpc = "start"
    /\ USERNAME \in Owners
    /\ repo_name \in {<<"site">>}
    /\ description \in Descriptions
    /\ repo_gets = 0
    /\ repo_posts = 0
    /\ get_answer = NoAnswer
    /\ post_answer = NoAnswer
    /\ post_data = NoData
    /\ repo_result = NoHandle

\* create_repo up to the existence GET
CreateRepoCall ==
    /\ rpc = "start"
    /\ repo_gets' = repo_gets + 1
    /\ rpc' = "get_sent"
    /\ UNCHANGED <<USERNAME, repo_name, description, repo_posts, get_answer,
                   post_answer, post_data, repo_result>>

\* create_repo from the answer of the GET: return the existing repository, or
\* send the creation POST
CreateRepoGetAnswer ==
    /\ rpc = "get_sent"
    /\ \E r \in RepoGetAnswers :
        /\ get_answer' = r
        /\ IF RepoFound(r)
           THEN /\ repo_result' = ExistingHandle(USERNAME, repo_name)
                /\ rpc' = "done"
                /\ UNCHANGED <<repo_posts, post_data>>
           ELSE /\ repo_posts' = repo_posts + 1
                /\ post_data' = [name |-> repo_name,
                                 description |-> SanitizeDescription(description)]
                /\ rpc' = "post_sent"
                /\ UNCHANGED repo_result
    /\ UNCHANGED <<USERNAME, repo_name, description, repo_gets, post_answer>>

\* create_repo from the answer of the POST: return r.json() or raise
CreateRepoPostAnswer ==
    /\ rpc = "post_sent"
    /\ \E r \in RepoPostAnswers :
        /\ post_answer' = r
        /\ repo_result' = IF RepoCreated(r) THEN CreatedHandle(r, repo_name)
                          ELSE RaisedHandle
        /\ rpc' = "done"
    /\ UNCHANGED <<USERNAME, repo_name, description, repo_gets, repo_posts,
                   get_answer, post_data>>

\* _owner_repo_from_repo(repo): (owner, name)
owner_repo_from_repo(repo, user) ==
    IF repo.full_name # <<>> /\ Contains(repo.full_name, SLASH)
    THEN LET parts == SplitFirst(repo.full_name, SLASH)
         IN [owner |-> parts[1], name |-> parts[2]]
    ELSE [owner |-> <<user>>, name |-> repo.name]

SLEEP_SECONDS == 3
GET_TIMEOUT == 15

\* how long one GET of the poll can take, in seconds
GetDurations == {0, 1, GET_TIMEOUT}

PAGES_URL == "https://alice.github.io/site/"

\* an answer of GET /repos/{owner}/{name}/pages: a transport exception or a
\* status; the body of a 200 is a JSON object with html_url ("" for null or
\* empty) and status ("None" for absent), a JSON list, or no JSON at all
NoPagesAnswer ==
    [kind |-> "none", status |-> 0, body |-> "none", html_url |-> "", state |-> "None"]

PagesAnswers ==
    { [kind |-> "exception", status |-> 0, body |-> "none", html_url |-> "", state |-> "None"] }
    \cup { [kind |-> "http", status |-> st, body |-> "object", html_url |-> "", state |-> "None"] :
             st \in {404, 500} }
    \cup { [kind |-> "http", status |-> 200, body |-> b, html_url |-> "", state |-> "None"] :
             b \in {"list", "invalid"} }
    \cup { [kind |-> "http", status |-> 200, body |-> "object", html_url |-> u, state |-> st] :
             u \in {"", PAGES_URL}, st \in {"None", "built", "building", "errored"} }

\* faulty variant: the status field of the answer is not looked at
PagesReadyAnyState(r) ==
    /\ r.kind = "http"
    /\ r.status = 200
    /\ r.body = "object"
    /\ r.html_url # ""

\* lines 216-221 and 279-284: the answer makes the poll return its html_url
PagesReady(r) ==
    /\ r.kind = "http"
    /\ r.status = 200
    /\ r.body = "object"
    /\ r.html_url # ""
    /\ r.state \in {"None", "built"}

\* the calls the model explores: wait_for_pages(repo_name) and
\* wait_for_pages_for_repo(repo) with and without a usable full_name
WaitCalls ==
    { [fn |-> "wait_for_pages", full_name |-> <<>>, name |-> <<"site">>],
      [fn |-> "wait_for_pages_for_repo", full_name |-> <<"bob", SLASH, "site">>,
       name |-> <<"site">>],
      [fn |-> "wait_for_pages_for_repo", full_name |-> <<>>, name |-> <<"site">>] }

\* pages_url of either function
PagesTarget(call, user) ==
    IF call.fn = "wait_for_pages"
    THEN [owner |-> <<user>>, name |-> call.name]
    ELSE owner_repo_from_repo(call, user)

VARIABLES
    wpc, wait_call, timeout_seconds, elapsed, pages_url, pages_gets,
    pages_answer, wait_result

pagesVars ==
    <<wpc, wait_call, timeout_seconds, elapsed, pages_url, pages_gets,
      pages_answer, wait_result>>

NoCall == [fn |-> "none", full_name |-> <<>>, name |-> <<>>]
NoTarget == [owner |-> <<>>, name |-> <<>>]

\* start = time.time(); pages_url = ...
PagesInit ==
    /\ wpc = "check"
    /\ wait_call \in WaitCalls
    /\ timeout_seconds \in 0..MaxTimeout
    /\ elapsed = 0
    /\ pages_url = PagesTarget(wait_call, USERNAME)
    /\ pages_gets = 0
    /\ pages_answer = NoPagesAnswer
    /\ wait_result = "pending"

\* the loop condition: poll again, or return None
PollCheck ==
    /\ wpc = "check"
    /\ IF elapsed < timeout_seconds
       THEN /\ pages_gets' = pages_gets + 1
            /\ wpc' = "get_sent"
            /\ UNCHANGED wait_result
       ELSE /\ wait_result' = "None"
            /\ wpc' = "done"
            /\ UNCHANGED pages_gets
    /\ UNCHANGED <<wait_call, timeout_seconds, elapsed, pages_url, pages_answer>>

\* the body of the try: return html_url, or fall through to the sleep
PollAnswer ==
    /\ wpc = "get_sent"
    /\ \E r \in PagesAnswers, d \in GetDurations :
        /\ pages_answer' = r
        /\ elapsed' = elapsed + d
        /\ IF PagesReady(r)
           THEN /\ wait_result' = r.html_url
                /\ wpc' = "done"
           ELSE /\ wpc' = "sleep"
                /\ UNCHANGED wait_result
    /\ UNCHANGED <<wait_call, timeout_seconds, pages_url, pages_gets>>

\* time.sleep(3)
PollSleep ==
    /\ wpc = "sleep"
    /\ elapsed' = elapsed + SLEEP_SECONDS
    /\ wpc' = "check"
    /\ UNCHANGED <<wait_call, timeout_seconds, pages_url, pages_gets,
                   pages_answer, wait_result>>

\* ------------------------- create_or_update_file, ..._binary_file
FileFunctions == {"create_or_update_file", "create_or_update_binary_file"}

FilePaths == {<<"index.html">>, <<"README.md">>}

FileContents == {<<>>, <<LT, CH>>}

\* base64.b64encode(content).decode("utf-8")
B64Encode(content) == [encoding |-> "base64", of |-> content]

\* an answer of the contents API: a transport exception or a status; the body
\* of a GET 200 is the file's JSON with its sha, or ("nosha") a body from which
\* file_data["sha"] cannot be read
NoFileAnswer == [kind |-> "none", status |-> 0, body |-> "none", sha |-> ""]

FileGetAnswers ==
    { [kind |-> "exception", status |-> 0, body |-> "none", sha |-> ""] }
    \cup { [kind |-> "http", status |-> st, body |-> "none", sha |-> ""] :
             st \in {403, 404, 500} }
    \cup { [kind |-> "http", status |-> 200, body |-> "file", sha |-> h] :
             h \in {"sha-1", "sha-2"} }
    \cup { [kind |-> "http", status |-> 200, body |-> "nosha", sha |-> ""] }

FilePutAnswers ==
    { [kind |-> "exception", status |-> 0, body |-> "none", sha |-> ""] }
    \cup { [kind |-> "http", status |-> st, body |-> "none", sha |-> ""] :
             st \in {200, 201, 409, 422} }

NoPut == [sent |-> FALSE, message |-> "", content |-> B64Encode(<<>>),
          has_sha |-> FALSE, sha |-> ""]

\* lines 88 and 145: the file exists
FileExists(r) == r.kind = "http" /\ r.status = 200

\* lines 101 and 160: the file does not exist
FileAbsent(r) == r.kind = "http" /\ r.status = 404

\* faulty variant: the update is sent without the sha that was read
UpdateDataNoSha(r, message, content) ==
    [sent |-> TRUE, message |-> message, content |-> B64Encode(content),
     has_sha |-> FALSE, sha |-> ""]

\* lines 91-95 and 148-152: the JSON of the update PUT
UpdateData(r, message, content) ==
    [sent |-> TRUE, message |-> message, content |-> B64Encode(content),
     has_sha |-> TRUE, sha |-> r.sha]

\* lines 103-106 and 162-165: the JSON of the creation PUT
CreateData(message, content) ==
    [sent |-> TRUE, message |-> message, content |-> B64Encode(content),
     has_sha |-> FALSE, sha |-> ""]

\* faulty variant: an update answered 201 counts as done too
PutSucceededEither(get, put) ==
    /\ put.kind = "http"
    /\ put.status \in {200, 201}

\* lines 97, 108, 154 and 167: the PUT did what the GET called for
PutSucceeded(get, put) ==
    /\ put.kind = "http"
    /\ IF FileExists(get) THEN put.status = 200 ELSE put.status = 201

\* what the function hands back when it fails: create_or_update_file raises
\* (lines 100, 111, 113, 116), the binary variant returns False
FileFailure(fn) == IF fn = "create_or_update_file" THEN "raise" ELSE "False"

\* what it hands back when the PUT succeeded: None, or True
FileSuccess(fn) == IF fn = "create_or_update_file" THEN "None" ELSE "True"

VARIABLES
    fpc, file_fn, file_path, file_content, file_requests, file_get_answer,
    file_put_answer, put_data, file_result

fileVars ==
    <<fpc, file_fn, file_path, file_content, file_requests, file_get_answer,
      file_put_answer, put_data, file_result>>

FileInit ==
    /\ fpc = "start"
    /\ file_fn \in FileFunctions
    /\ file_path \in FilePaths
    /\ file_content \in FileContents
    /\ file_requests = <<>>
    /\ file_get_answer = NoFileAnswer
    /\ file_put_answer = NoFileAnswer
    /\ put_data = NoPut
    /\ file_result = "pending"

\* either function up to its GET
FileCall ==
    /\ fpc = "start"
    /\ file_requests' = Append(file_requests, "GET")
    /\ fpc' = "get_sent"
    /\ UNCHANGED <<file_fn, file_path, file_content, file_get_answer,
                   file_put_answer, put_data, file_result>>

\* either function from the answer of the GET: send the PUT, or fail
FileGetAnswer ==
    /\ fpc = "get_sent"
    /\ \E r \in FileGetAnswers :
        /\ file_get_answer' = r
        /\ IF FileExists(r) /\ r.body = "file"
           THEN /\ put_data' = UpdateData(r, "commit", file_content)
                /\ file_requests' = Append(file_requests, "PUT")
                /\ fpc' = "put_sent"
                /\ UNCHANGED file_result
           ELSE IF FileAbsent(r)
           THEN /\ put_data' = CreateData("commit", file_content)
                /\ file_requests' = Append(file_requests, "PUT")
                /\ fpc' = "put_sent"
                /\ UNCHANGED file_result
           ELSE /\ file_result' = FileFailure(file_fn)
                /\ fpc' = "done"
                /\ UNCHANGED <<put_data, file_requests>>
    /\ UNCHANGED <<file_fn, file_path, file_content, file_put_answer>>

\* either function from the answer of the PUT to its end
FilePutAnswer ==
    /\ fpc = "put_sent"
    /\ \E r \in FilePutAnswers :
        /\ file_put_answer' = r
        /\ file_result' = IF PutSucceeded(file_get_answer, r)
                          THEN FileSuccess(file_fn)
                          ELSE FileFailure(file_fn)
        /\ fpc' = "done"
    /\ UNCHANGED <<file_fn, file_path, file_content, file_requests,
                   file_get_answer, put_data>>

\* ------------------------------------------------ decode_attachments
\* the entries the lists are drawn from: two valid entries sharing a name,
\* a valid entry of another name, a url that is no data-URI, a data-URI
\* without a comma, one whose payload does not decode, a valid entry without
\* a name, and a valid entry whose name cannot be opened for writing
AttEntries ==
    { TxtAttachment,
      [name |-> <<"notes", ".txt">>, data |-> TRUE, comma |-> TRUE,
       mime |-> <<"text", "/markdown">>, b64ok |-> TRUE, bytes |-> <<CH>>],
      [name |-> <<"logo", ".png">>, data |-> TRUE, comma |-> TRUE,
       mime |-> <<"image", "/png">>, b64ok |-> TRUE, bytes |-> <<CH, CH>>],
      HttpAttachment,
      [name |-> <<"broken", ".txt">>, data |-> TRUE, comma |-> FALSE,
       mime |-> <<>>, b64ok |-> FALSE, bytes |-> <<>>],
      [name |-> <<"padding", ".bin">>, data |-> TRUE, comma |-> TRUE,
       mime |-> <<"application", "/octet-stream">>, b64ok |-> FALSE, bytes |-> <<>>],
      [name |-> <<>>, data |-> TRUE, comma |-> TRUE,
       mime |-> <<"text", "/plain">>, b64ok |-> TRUE, bytes |-> <<LT>>],
      [name |-> <<"sub", SLASH, "x", ".txt">>, data |-> TRUE, comma |-> TRUE,
       mime |-> <<"text", "/plain">>, b64ok |-> TRUE, bytes |-> <<CH>>] }

AttLists == UNION {[1..k -> AttEntries] : k \in 0..MaxAtts}

\* the directory as earlier calls can have left it
StaleDir == [n \in {<<"notes", ".txt">>} |-> <<"stale">>]

VARIABLES dpc, dec_attachments, dec_i, dec_saved, dec_dir0, dec_dir, dec_raised

decodeVars == <<dpc, dec_attachments, dec_i, dec_saved, dec_dir0, dec_dir, dec_raised>>

DecodeInit ==
    /\ dpc = "loop"
    /\ dec_attachments \in AttLists
    /\ dec_i = 1
    /\ dec_saved = <<>>
    /\ dec_dir0 \in {EmptyDir, StaleDir}
    /\ dec_dir = dec_dir0
    /\ dec_raised = FALSE

\* one pass of the for loop (lines 23-42)
DecodeIteration ==
    /\ dpc = "loop"
    /\ dec_i <= Len(dec_attachments)
    /\ LET one == DecodeOne(dec_attachments[dec_i], dec_saved, dec_dir)
       IN /\ dec_saved' = one.saved
          /\ dec_dir' = one.dir
          /\ dec_raised' = one.raised
          /\ dpc' = IF one.raised THEN "done" ELSE "loop"
    /\ dec_i' = dec_i + 1
    /\ UNCHANGED <<dec_attachments, dec_dir0>>

\* return saved
DecodeReturn ==
    /\ dpc = "loop"
    /\ dec_i > Len(dec_attachments)
    /\ dpc' = "done"
    /\ UNCHANGED <<dec_attachments, dec_i, dec_saved, dec_dir0, dec_dir, dec_raised>>

\* ------------------------------------------------- the specifications
vars == <<genVars, repoVars, pagesVars, fileVars, decodeVars>>

GenIdle ==
    /\ pc = "idle"
    /\ OPENAI_API_KEY = ""
    /\ brief = <<>>
    /\ attachments = <<>>
    /\ checks = <<>>
    /\ round_num = 1
    /\ prev_readme = <<>>
    /\ tmp_dir = EmptyDir
    /\ saved = <<>>
    /\ attachments_meta = <<>>
    /\ posts = 0
    /\ payload = <<>>
    /\ resp = NoResp
    /\ text = <<>>
    /\ code_part = <<>>
    /\ readme_part = <<>>
    /\ files = NoFiles
    /\ outcome = "none"

RepoIdle ==
    /\ rpc = "idle"
    /\ repo_name = <<>>
    /\ description = <<>>
    /\ repo_gets = 0
    /\ repo_posts = 0
    /\ get_answer = NoAnswer
    /\ post_answer = NoAnswer
    /\ post_data = NoData
    /\ repo_result = NoHandle

PagesIdle ==
    /\ wpc = "idle"
    /\ wait_call = NoCall
    /\ timeout_seconds = 0
    /\ elapsed = 0
    /\ pages_url = NoTarget
    /\ pages_gets = 0
    /\ pages_answer = NoPagesAnswer
    /\ wait_result = "pending"

FileIdle ==
    /\ fpc = "idle"
    /\ file_fn = "none"
    /\ file_path = <<>>
    /\ file_content = <<>>
    /\ file_requests = <<>>
    /\ file_get_answer = NoFileAnswer
    /\ file_put_answer = NoFileAnswer
    /\ put_data = NoPut
    /\ file_result = "pending"

DecodeIdle ==
    /\ dpc = "idle"
    /\ dec_attachments = <<>>
    /\ dec_i = 1
    /\ dec_saved = <<>>
    /\ dec_dir0 = EmptyDir
    /\ dec_dir = EmptyDir
    /\ dec_raised = FALSE

\* generate_app_code
InitGen == GenInit /\ USERNAME = "alice" /\ RepoIdle /\ PagesIdle /\ FileIdle /\ DecodeIdle

NextGen ==
    \/ Call /\ UNCHANGED <<repoVars, pagesVars, fileVars, decodeVars>>
    \/ Respond /\ UNCHANGED <<repoVars, pagesVars, fileVars, decodeVars>>

SpecGen == InitGen /\ [][NextGen]_vars

\* create_repo
InitRepo == GenIdle /\ RepoInit /\ PagesIdle /\ FileIdle /\ DecodeIdle

NextRepo ==
    \/ CreateRepoCall /\ UNCHANGED <<genVars, pagesVars, fileVars, decodeVars>>
    \/ CreateRepoGetAnswer /\ UNCHANGED <<genVars, pagesVars, fileVars, decodeVars>>
    \/ CreateRepoPostAnswer /\ UNCHANGED <<genVars, pagesVars, fileVars, decodeVars>>

SpecRepo == InitRepo /\ [][NextRepo]_vars

\* wait_for_pages and wait_for_pages_for_repo.  The program is one thread that
\* keeps running, every GET ends (by its answer or by its timeout) and every
\* sleep ends: a step that is enabled is eventually taken.
InitPages == GenIdle /\ USERNAME \in Owners /\ RepoIdle /\ PagesInit /\ FileIdle /\ DecodeIdle

NextPages ==
    \/ PollCheck /\ UNCHANGED <<genVars, repoVars, fileVars, decodeVars>>
    \/ PollAnswer /\ UNCHANGED <<genVars, repoVars, fileVars, decodeVars>>
    \/ PollSleep /\ UNCHANGED <<genVars, repoVars, fileVars, decodeVars>>

SpecPages == InitPages /\ [][NextPages]_vars /\ WF_vars(NextPages)

\* create_or_update_file and create_or_update_binary_file
InitFile == GenIdle /\ USERNAME = "alice" /\ RepoIdle /\ PagesIdle /\ FileInit /\ DecodeIdle

NextFile ==
    \/ FileCall /\ UNCHANGED <<genVars, repoVars, pagesVars, decodeVars>>
    \/ FileGetAnswer /\ UNCHANGED <<genVars, repoVars, pagesVars, decodeVars>>
    \/ FilePutAnswer /\ UNCHANGED <<genVars, repoVars, pagesVars, decodeVars>>

SpecFile == InitFile /\ [][NextFile]_vars

\* decode_attachments
InitDecode ==
    GenIdle /\ USERNAME = "alice" /\ RepoIdle /\ PagesIdle /\ FileIdle /\ DecodeInit

NextDecode ==
    \/ DecodeIteration /\ UNCHANGED <<genVars, repoVars, pagesVars, fileVars>>
    \/ DecodeReturn /\ UNCHANGED <<genVars, repoVars, pagesVars, fileVars>>

SpecDecode == InitDecode /\ [][NextDecode]_vars

\* ------------------------------------------------------------- claims
Count(s, tok) == Cardinality({i \in DOMAIN s : s[i] = tok})

\* the text of the first fenced block: from the first fence to the second,
\* or to the end when there is no second fence
FirstFenced(t) ==
    LET i == FirstIndex(t, FENCE)
        rest == SubSeq(t, i + 1, Len(t))
        j == FirstIndex(rest, FENCE)
    IN IF j = 0 THEN rest ELSE SubSeq(rest, 1, j - 1)

\* a segment fence-stripped and trimmed, as the specification words it
FenceStrippedTrimmed(t) ==
    Strip(IF Contains(t, FENCE) THEN FirstFenced(t) ELSE t)

\* a code part as returned: itself when it starts with "<", else inside the skeleton
Repaired(c) == IF c # <<>> /\ c[1] = LT THEN c ELSE WrapHtml(c)

ExpectedFallback == FallbackText(brief, checks, attachments_meta, round_num)

\* the completion call failed: no credential, a transport exception, a status
\* other than 200
CallFailed ==
    \/ OPENAI_API_KEY = ""
    \/ resp.kind = "exception"
    \/ (resp.kind = "http" /\ resp.status # 200)

MissingContent == resp.kind = "http" /\ resp.status = 200 /\ resp.tag \in {"object", "string"}

\* C1: whatever the completion call does, both returned files are non-empty.
C1_BothFilesNonEmpty ==
    pc = "done" => files["index.html"] # <<>> /\ files["README.md"] # <<>>

\* C2 as claimed: status other than 200, a 200 without the message content and
\* a transport exception all lead to the fallback text being parsed.
C2_AllThreeShapesFallBack ==
    (pc = "done" /\ OPENAI_API_KEY # "" /\ (CallFailed \/ MissingContent))
        => text = ExpectedFallback

\* C2 as amended: a status other than 200, a transport exception and a 200
\* whose body is no JSON lead to the same fallback text; a 200 whose JSON lacks
\* choices[0].message.content leads to str(data) being parsed instead.
C2_FallbackShapes ==
    (pc = "done" /\ OPENAI_API_KEY # "")
        => /\ (CallFailed \/ resp.tag = "invalid") => text = ExpectedFallback
           /\ MissingContent =>
                /\ text = (IF resp.tag = "string" THEN resp.content ELSE <<ERROR_OBJECT>>)
                /\ text # ExpectedFallback

C2_Witness ==
    /\ pc = "done"
    /\ resp.kind = "http"
    /\ resp.status = 429
    /\ text = ExpectedFallback
    /\ Contains(files["index.html"], FALLBACK_MARK)

\* C3 as claimed: without the credential generate_app_code raises to its
\* caller: no POST, no result.
C3_MissingKeyRaises ==
    OPENAI_API_KEY = "" => posts = 0 /\ outcome # "returned"

\* C3 as amended: without the credential no POST is issued, the error is
\* handled inside generate_app_code and the fallback files are returned.
C3_MissingKeyFallsBack ==
    OPENAI_API_KEY = ""
        => /\ posts = 0
           /\ pc # "posting"
           /\ pc = "done" => /\ outcome = "returned"
                             /\ text = ExpectedFallback
                             /\ resp = NoResp

C3_Witness ==
    /\ pc = "done"
    /\ OPENAI_API_KEY = ""
    /\ outcome = "returned"
    /\ posts = 0

C5_OneSeparatorSegments ==
    (pc = "done" /\ Count(text, SEPARATOR) = 1)
        => LET i == FirstIndex(text, SEPARATOR)
           IN /\ files["index.html"] = FenceStrippedTrimmed(SubSeq(text, 1, i - 1))
              /\ files["README.md"] = FenceStrippedTrimmed(SubSeq(text, i + 1, Len(text)))

\* C5 as amended: with exactly one separator README.md is the text after it
\* and index.html the text before it, each fence-stripped and trimmed, and
\* index.html is wrapped in the skeleton when that text does not start with "<".
C5_OneSeparatorRepaired ==
    (pc = "done" /\ Count(text, SEPARATOR) = 1)
        => LET i == FirstIndex(text, SEPARATOR)
           IN /\ files["index.html"]
                    = Repaired(FenceStrippedTrimmed(SubSeq(text, 1, i - 1)))
              /\ files["README.md"] = FenceStrippedTrimmed(SubSeq(text, i + 1, Len(text)))

C5_Witness ==
    /\ pc = "done"
    /\ resp.tag = "completion"
    /\ Count(text, SEPARATOR) = 1
    /\ Contains(text, FENCE)
    /\ files["README.md"] # <<>>
    /\ files["index.html"] # code_part

\* C6: when the completion call fails, index.html holds the fallback marker
\* and the whole brief, README.md the title with the round and the whole brief.
C6_FallbackHoldsBrief ==
    (pc = "done" /\ CallFailed)
        => /\ Contains(files["index.html"], FALLBACK_MARK)
           /\ ContainsSeq(files["index.html"], brief)
           /\ ContainsSeq(files["README.md"], <<README_TITLE, ToString(round_num), ")">>)
           /\ ContainsSeq(files["README.md"], brief)

\* C7: index.html starts with "<": the code part unchanged when it starts
\* with "<", else a document starting with <!DOCTYPE html> that holds it.
C7_DocumentStart ==
    pc = "done"
        => /\ files["index.html"] # <<>>
           /\ files["index.html"][1] = LT
           /\ IF code_part # <<>> /\ code_part[1] = LT
              THEN files["index.html"] = code_part
              ELSE /\ StartsWith(files["index.html"], <<LT, "!DOCTYPE", " html>">>)
                   /\ ContainsSeq(files["index.html"], code_part)

C7_Witness ==
    /\ pc = "done"
    /\ resp.tag = "completion"
    /\ code_part # <<>>
    /\ code_part[1] = CH
    /\ files["index.html"] # code_part

\* index.html fed back through the split, the fence strip and the repair
Resplit(html) ==
    RepairHtml(ParseResponse(html, brief, checks, attachments_meta, round_num).code)

QualifyingAnswer(r) ==
    r.status = 200 /\ r.html_url = PAGES_URL /\ r.state \in {"built", "None"}

\* C10, the part every state satisfies: a GET is issued only before the
\* timeout has elapsed, the poll goes on after an answer exactly when the
\* answer does not qualify, and the value returned is the html_url of the
\* qualifying answer, which is then the last one, and None otherwise.
C10_PollState ==
    /\ wpc = "get_sent" => elapsed < timeout_seconds
    /\ wpc = "sleep" => ~QualifyingAnswer(pages_answer)
    /\ wpc = "check" /\ pages_gets > 0 => ~QualifyingAnswer(pages_answer)
    /\ wpc = "done" =>
        IF pages_gets > 0 /\ QualifyingAnswer(pages_answer)
        THEN wait_result = PAGES_URL
        ELSE wait_result = "None" /\ elapsed >= timeout_seconds
    /\ wpc # "done" => wait_result = "pending"

\* C10: both polls return, whatever the GETs answer, and what they return is
\* the html_url of the first qualifying answer or None.
C10_WaitForPages == []C10_PollState /\ <>(wpc = "done")

C10_Witness ==
    /\ wpc = "done"
    /\ wait_result = "None"
    /\ pages_gets >= 2
    /\ pages_answer.status = 200
    /\ pages_answer.html_url = PAGES_URL
    /\ pages_answer.state = "building"
    /\ wait_call.fn = "wait_for_pages_for_repo"

\* C11: create_or_update_file sends a GET, then at most one PUT; the PUT
\* carries the sha of the GET's answer exactly when the GET answered 200 and
\* no sha exactly when it answered 404; no PUT follows any other GET answer;
\* another GET status, or a PUT status other than 200 and 201, raises.
C11_GetThenPut ==
    file_fn = "create_or_update_file" =>
        /\ file_requests \in {<<>>, <<"GET">>, <<"GET", "PUT">>}
        /\ put_data.sent <=> file_requests = <<"GET", "PUT">>
        /\ put_data.sent =>
            /\ file_get_answer.status \in {200, 404}
            /\ put_data.has_sha <=> file_get_answer.status = 200
            /\ put_data.has_sha => put_data.sha = file_get_answer.sha /\ put_data.sha # ""
            /\ file_get_answer.status = 404 => ~put_data.has_sha /\ put_data.sha = ""
        /\ fpc = "done" =>
            /\ file_get_answer.status \notin {200, 404} =>
                    file_requests = <<"GET">> /\ file_result = "raise"
            /\ (put_data.sent /\ file_put_answer.status \notin {200, 201}) =>
                    file_result = "raise"
            /\ file_result \in {"raise", "None"}

C11_Witness ==
    /\ file_fn = "create_or_update_file"
    /\ fpc = "done"
    /\ file_requests = <<"GET", "PUT">>
    /\ file_get_answer.status = 200
    /\ put_data.sha = "sha-2"
    /\ file_put_answer.status = 200
    /\ file_result = "None"

\* C12: create_or_update_binary_file never raises: it returns True exactly
\* when GET 200 was followed by PUT 200 or GET 404 by PUT 201, else False.
C12_BinaryReturnsBoolean ==
    (file_fn = "create_or_update_binary_file" /\ fpc = "done") =>
        /\ file_result \in {"True", "False"}
        /\ file_result = "True" <=>
            \/ /\ file_get_answer.status = 200
               /\ file_requests = <<"GET", "PUT">>
               /\ file_put_answer.status = 200
            \/ /\ file_get_answer.status = 404
               /\ file_requests = <<"GET", "PUT">>
               /\ file_put_answer.status = 201

C12_Witness ==
    /\ file_fn = "create_or_update_binary_file"
    /\ fpc = "done"
    /\ file_get_answer.status = 200
    /\ file_put_answer.status = 201
    /\ file_result = "False"

\* an entry that ends up saved: a data-URI with a comma, a payload that
\* decodes, and a name that can be written
ValidEntry(att) ==
    /\ att.data
    /\ att.comma
    /\ att.b64ok
    /\ ~Contains(IF att.name = <<>> THEN <<"attachment">> ELSE att.name, SLASH)

SavedName(att) == IF att.name = <<>> THEN <<"attachment">> ELSE att.name

\* the SavedAttachment list the claim calls for, for the entries atts
ExpectedSaved(atts) ==
    LET valid == SelectSeq(atts, ValidEntry)
    IN [i \in DOMAIN valid |->
           [name |-> SavedName(valid[i]), path |-> SavedName(valid[i]),
            mime |-> valid[i].mime, size |-> Len(valid[i].bytes)]]

\* C13: decode_attachments never raises; entries that are no data-URI and
\* entries that fail are skipped without ending the loop; the list returned
\* holds one SavedAttachment per valid entry, in input order, also when names
\* repeat, and the file under a name holds the payload of its last writer.
C13_DecodeAttachments ==
    /\ ~dec_raised
    /\ dpc = "loop" => dec_i <= Len(dec_attachments) + 1
    /\ dec_saved = ExpectedSaved(SubSeq(dec_attachments, 1, dec_i - 1))
    /\ dpc = "done" =>
        /\ dec_i = Len(dec_attachments) + 1
        /\ \A n \in DOMAIN dec_dir :
            LET writers == {i \in DOMAIN dec_attachments :
                                /\ ValidEntry(dec_attachments[i])
                                /\ SavedName(dec_attachments[i]) = n}
            IN IF writers = {}
               THEN n \in DOMAIN dec_dir0 /\ dec_dir[n] = dec_dir0[n]
               ELSE dec_dir[n] =
                        dec_attachments[CHOOSE i \in writers :
                                            \A j \in writers : j <= i].bytes
        /\ \A i \in DOMAIN dec_attachments :
            ValidEntry(dec_attachments[i]) =>
                SavedName(dec_attachments[i]) \in DOMAIN dec_dir

\* two valid entries of one name around an entry that fails and one that
\* cannot be written: both are saved, the file holds the second payload
C13_Witness ==
    /\ dpc = "done"
    /\ Len(dec_attachments) = 3
    /\ dec_attachments[1] = TxtAttachment
    /\ DecodeError(dec_attachments[2]) = "OSError"
    /\ dec_attachments[3].name = TxtAttachment.name
    /\ dec_attachments[3].bytes = <<CH>>
    /\ Len(dec_saved) = 2
    /\ dec_saved[1].name = dec_saved[2].name
    /\ dec_dir[<<"notes", ".txt">>] = <<CH>>
    /\ dec_dir0 = StaleDir

====
